---- MODULE Spec2Model ----
(***************************************************************************)
(* Simulation core of the Swiss investment strategy simulator (src/app.py):*)
(* the regulatory amortization rule, the payment calculator and the        *)
(* pure-investment, real-estate and hybrid simulators.                     *)
(*                                                                         *)
(* Numbers.  The program computes with Python floats.  The model computes  *)
(* in fixed point: money is a whole number of CHF, annual rates are whole  *)
(* per cent, the monthly compounding rate is a whole number of basis       *)
(* points, and a product or quotient is rounded down to the unit.  The     *)
(* comparisons with 0.667 are made exactly, by cross-multiplication.  The  *)
(* prices and down payments drawn by Init make the regulatory division by  *)
(* 15 and by 12 exact.                                                     *)
(*                                                                         *)
(* Control.  The script calls the core functions one after the other in    *)
(* source order; pc is the call in progress.  Each loop iteration of a     *)
(* simulator is one step.  An exception ends the script (pc = "error").    *)
(***************************************************************************)
EXTENDS Integers, Sequences, FiniteSets, TLC

\* ------------------------------------------------------------------ bounds
\* monthly budgets drawn: 0, 2000, ..., NumBudgets * 2000
NumBudgets == 3

\* ------------------------------------------------------- program constants
\* target_ltv = 0.667, in per mille
target_ltv == 667
\* the fixed 15-year period of the regulatory rule
min_period == 15
\* for year in range(30)
sim_years == 30
\* years = 30, the horizon handed to simulate_investment_strategy
years == 30

\* Python's None where the other values are years 1..30
None == 0 - 1

\* a call not made yet, and a call ended by an exception
Idle == [status |-> "idle"]
Raised == [status |-> "ZeroDivisionError"]

\* ----------------------------------------------------------- fixed point
Min(a, b) == IF a <= b THEN a ELSE b
Max(a, b) == IF a >= b THEN a ELSE b

\* x * n / d rounded down, without forming x * n
MulDiv(x, n, d) == (x \div d) * n + ((x % d) * n) \div d

\* x * rate, rate in per cent
PctOf(x, pct) == MulDiv(x, pct, 100)

\* x * rate, rate in basis points
BpOf(x, bp) == MulDiv(x, bp, 10000)

\* a ** n in fixed point with four decimals
RECURSIVE PowFix(_, _)
PowFix(a, n) == IF n = 0 THEN 10000 ELSE (a * PowFix(a, n - 1)) \div 10000

\* (1 + annual_return) ** (1/12) - 1, to the basis point
MonthlyRate(annual_return) ==
    LET target == 100 * (100 + annual_return)
        lo == Min(annual_return * 100, 0)
        hi == Max((annual_return * 100) \div 12, 0) + 1
        ok == {m \in lo..hi : PowFix(10000 + m, 12) <= target}
    IN  CHOOSE m \in ok : \A k \in ok : k <= m

\* balance / property_value if property_value > 0 else 0, as a fraction
CurrentLtv(balance, property_value) ==
    IF property_value > 0 THEN <<balance, property_value>> ELSE <<0, 1>>

\* current_ltv > target_ltv, exactly: n / d > 0.667 iff n > floor(0.667 * d)
LtvAbove(ltv) == ltv[1] > MulDiv(ltv[2], target_ltv, 1000)

\* ---------------------------------------------------------------- inputs
PropertyPrices == {0, 1200000}

\* down payments for which (loan - 0.667 * price) / 15 / 12 is a whole number
DownPayments(price) ==
    IF price = 0 THEN {0}
    ELSE {0, 241200, 399600, 600000, price}

Budgets == {k * 2000 : k \in 0..NumBudgets}
InterestRates == {0, 2}
GrowthRates == {0 - 100, 0, 2}
PortfolioReturns == {0, 7}
AmortYears == {5, 15, 30}
Rents == {3000}

\* strategy tags of calculate_ltv_progression
Strategies == {"pure_max", "pure_invest", "hybrid"}

VARIABLES
    flat_price,          \* property_price
    equity,              \* down_payment, and initial_capital of the investor
    monthly_cap,         \* monthly_budget
    monthly_rent,
    interest_rate,       \* per cent
    real_estate_growth,  \* appreciation_rate, per cent
    portfolio_return,    \* per cent
    amortization_years,
    pc,                  \* the call of the script in progress
    min_payments,        \* result of calculate_minimum_payments
    inv,                 \* simulate_investment_strategy: locals and result
    re,                  \* simulate_real_estate_strategy, by continue_amortization
    hy,                  \* simulate_hybrid_strategy
    payments,            \* results of calculate_monthly_payments, by is_hybrid
    ltv                  \* calculate_ltv_progression, by strategy

inputs == <<flat_price, equity, monthly_cap, monthly_rent, interest_rate,
            real_estate_growth, portfolio_return, amortization_years>>

vars == <<flat_price, equity, monthly_cap, monthly_rent, interest_rate,
          real_estate_growth, portfolio_return, amortization_years,
          pc, min_payments, inv, re, hy, payments, ltv>>

\* ------------------------------------------- calculate_minimum_payments
\* variant: the minimum spread over the caller's amortization_years
calculate_minimum_payments_by_years(property_price, down_payment, rate) ==
    IF property_price = 0 THEN Raised
    ELSE
    LET loan == property_price - down_payment
        monthly_interest == PctOf(loan, rate) \div 12
        monthly_min_amort ==
            IF (property_price - down_payment) * 1000 > target_ltv * property_price
            THEN ((loan * 1000 - property_price * target_ltv)
                    \div (amortization_years * 1000)) \div 12
            ELSE 0
    IN  [status |-> "returned",
         monthly_interest |-> monthly_interest,
         monthly_min_amort |-> monthly_min_amort,
         total_min_payment |-> monthly_interest + monthly_min_amort]

\* the value returned, or Raised for the ZeroDivisionError of down_payment/property_price
calculate_minimum_payments(property_price, down_payment, rate) ==
    IF property_price = 0 THEN Raised
    ELSE
    LET loan == property_price - down_payment
        monthly_interest == PctOf(loan, rate) \div 12
        monthly_min_amort ==
            IF (property_price - down_payment) * 1000 > target_ltv * property_price
            THEN ((loan * 1000 - property_price * target_ltv)
                    \div (min_period * 1000)) \div 12
            ELSE 0
    IN  [status |-> "returned",
         monthly_interest |-> monthly_interest,
         monthly_min_amort |-> monthly_min_amort,
         total_min_payment |-> monthly_interest + monthly_min_amort]

CallMinimumPayments ==
    /\ pc = "min_payments"
    /\ min_payments' = calculate_minimum_payments(flat_price, equity, interest_rate)
    /\ pc' = IF min_payments' = Raised THEN "error" ELSE "invest"
    /\ UNCHANGED <<inputs, inv, re, hy, payments, ltv>>

\* ------------------------------------------- simulate_investment_strategy
InvestCall ==
    /\ pc = "invest"
    /\ inv.status = "idle"
    /\ inv' = [status |-> "running",
               monthly_rate |-> MonthlyRate(portfolio_return),
               value |-> equity,
               month |-> 0,
               progression |-> <<>>]
    /\ UNCHANGED <<inputs, pc, min_payments, re, hy, payments, ltv>>

\* variant: a negative contribution clamped to 0
InvestStep_clamped(value, monthly_rate, monthly_amount, rent) ==
    value + BpOf(value, monthly_rate) + Max(0, monthly_amount - rent)

\* variant: the value stored at the first step of each year
is_year_end_first(month) == month % 12 = 0

\* if _ % 12 == 11: the step after which the yearly value is stored
is_year_end(month) == month % 12 = 11

\* value after one monthly step
InvestStep(value, monthly_rate, monthly_amount, rent) ==
    value + BpOf(value, monthly_rate) + (monthly_amount - rent)

InvestMonth ==
    /\ pc = "invest"
    /\ inv.status = "running"
    /\ inv.month < years * 12
    /\ LET value == InvestStep(inv.value, inv.monthly_rate, monthly_cap, monthly_rent)
       IN  inv' = [inv EXCEPT
                     !.value = value,
                     !.month = @ + 1,
                     !.progression = IF is_year_end(inv.month)
                                     THEN Append(@, value) ELSE @]
    /\ UNCHANGED <<inputs, pc, min_payments, re, hy, payments, ltv>>

InvestReturn ==
    /\ pc = "invest"
    /\ inv.status = "running"
    /\ inv.month = years * 12
    /\ inv' = [inv EXCEPT !.status = "returned"]
    /\ pc' = "re_max"
    /\ UNCHANGED <<inputs, min_payments, re, hy, payments, ltv>>

\* ------------------------------------------- simulate_real_estate_strategy
\* the locals before the loop, or Raised
real_estate_init(property_price, down_payment) ==
    IF property_price = 0 THEN Raised
    ELSE
    LET loan == property_price - down_payment
    IN  [status |-> "running",
         balance |-> loan,
         property_value |-> property_price,
         investment_value |-> 0,
         net_worth |-> <<>>,
         payoff_year |-> None,
         min_amort_per_year |->
            IF (property_price - down_payment) * 1000 > target_ltv * property_price
            THEN (loan * 1000 - property_price * target_ltv) \div (min_period * 1000)
            ELSE 0,
         year |-> 0,
         trace |-> <<>>]

\* variant: "and" in place of "or" in the elif
re_branch_and(balance, current_ltv, continue_amortization, year, amort_years) ==
    IF balance = 0 THEN "paid_off"
    ELSE IF LtvAbove(current_ltv) /\ (continue_amortization /\ year < amort_years)
         THEN "amortize"
         ELSE "invest"

\* variant: the year count keeps the loan amortizing in either mode
re_branch_any_mode(balance, current_ltv, continue_amortization, year, amort_years) ==
    IF balance = 0 THEN "paid_off"
    ELSE IF LtvAbove(current_ltv) \/ year < amort_years
         THEN "amortize"
         ELSE "invest"

\* which arm of the if / elif / else the year takes
re_branch(balance, current_ltv, continue_amortization, year, amort_years) ==
    IF balance = 0 THEN "paid_off"
    ELSE IF LtvAbove(current_ltv) \/ (continue_amortization /\ year < amort_years)
         THEN "amortize"
         ELSE "invest"

\* variant: the amortization not capped by the balance
re_amortization_uncapped(balance, min_amort_per_year, available_for_amort) ==
    Max(min_amort_per_year, available_for_amort)

\* variant: only the regulatory minimum is ever paid
re_amortization_min_only(balance, min_amort_per_year, available_for_amort) ==
    Min(balance, min_amort_per_year)

\* amortization = min(balance, max(min_amort_per_year, available_for_amort))
re_amortization(balance, min_amort_per_year, available_for_amort) ==
    Min(balance, Max(min_amort_per_year, available_for_amort))

\* variant: the 0-indexed loop variable recorded
payoff_mark_zero_based(balance, payoff_year, year) ==
    IF balance = 0 /\ payoff_year = None THEN year ELSE payoff_year

\* if balance == 0 and payoff_year is None: payoff_year = year + 1
payoff_mark(balance, payoff_year, year) ==
    IF balance = 0 /\ payoff_year = None THEN year + 1 ELSE payoff_year

\* one iteration of the loop; trace records what the iteration did
real_estate_year(s, monthly_budget, rate, appreciation_rate, amort_years, continue_amortization) ==
    LET property_value == s.property_value + PctOf(s.property_value, appreciation_rate)
        interest == PctOf(s.balance, rate)
        current_ltv == CurrentLtv(s.balance, property_value)
        available_for_amort == monthly_budget * 12 - interest
        branch == re_branch(s.balance, current_ltv, continue_amortization,
                            s.year, amort_years)
        amortization == IF branch = "amortize"
                        THEN re_amortization(s.balance, s.min_amort_per_year,
                                             available_for_amort)
                        ELSE 0
        monthly_investment ==
            CASE branch = "paid_off" -> monthly_budget
              [] branch = "amortize" -> 0
              [] branch = "invest" -> Max(0, (monthly_budget * 12 - interest) \div 12)
        balance == s.balance - amortization
        investment_value ==
            IF branch = "amortize" THEN s.investment_value
            ELSE s.investment_value + PctOf(s.investment_value, portfolio_return)
                    + monthly_investment * 12
        payoff_year == IF branch = "amortize"
                       THEN payoff_mark(balance, s.payoff_year, s.year)
                       ELSE s.payoff_year
        net == property_value - balance + investment_value
    IN  [s EXCEPT
           !.balance = balance,
           !.property_value = property_value,
           !.investment_value = investment_value,
           !.payoff_year = payoff_year,
           !.net_worth = Append(@, net),
           !.year = @ + 1,
           !.trace = Append(@, [branch |-> branch,
                                start_balance |-> s.balance,
                                balance |-> balance,
                                property_value |-> property_value,
                                interest |-> interest,
                                current_ltv |-> current_ltv,
                                amortization |-> amortization,
                                monthly_investment |-> monthly_investment,
                                invested |-> IF branch = "amortize" THEN 0
                                             ELSE monthly_investment * 12,
                                investment_before |-> s.investment_value,
                                investment_value |-> investment_value,
                                payoff_year |-> payoff_year,
                                net_worth |-> net])]

RePc(c) == IF c THEN "re_max" ELSE "re_inv"

RealEstateCall(c) ==
    /\ pc = RePc(c)
    /\ re[c].status = "idle"
    /\ LET s == real_estate_init(flat_price, equity)
       IN  /\ re' = [re EXCEPT ![c] = s]
           /\ pc' = IF s = Raised THEN "error" ELSE pc
    /\ UNCHANGED <<inputs, min_payments, inv, hy, payments, ltv>>

RealEstateYear(c) ==
    /\ pc = RePc(c)
    /\ re[c].status = "running"
    /\ re[c].year < sim_years
    /\ re' = [re EXCEPT ![c] = real_estate_year(re[c], monthly_cap, interest_rate,
                                  real_estate_growth, amortization_years, c)]
    /\ UNCHANGED <<inputs, pc, min_payments, inv, hy, payments, ltv>>

RealEstateReturn(c) ==
    /\ pc = RePc(c)
    /\ re[c].status = "running"
    /\ re[c].year = sim_years
    /\ re' = [re EXCEPT ![c].status = "returned"]
    /\ pc' = IF c THEN "re_inv" ELSE "hybrid"
    /\ UNCHANGED <<inputs, min_payments, inv, hy, payments, ltv>>

\* ------------------------------------------------ simulate_hybrid_strategy
hybrid_init(property_price, down_payment) ==
    IF property_price = 0 THEN Raised
    ELSE
    LET loan == property_price - down_payment
    IN  [status |-> "running",
         balance |-> loan,
         property_value |-> property_price,
         investment_value |-> 0,
         net_worth |-> <<>>,
         payoff_year |-> None,
         min_amort_per_year |->
            IF (property_price - down_payment) * 1000 > target_ltv * property_price
            THEN (loan * 1000 - property_price * target_ltv) \div (min_period * 1000)
            ELSE 0,
         year |-> 0,
         trace |-> <<>>]

\* which arm of the if / elif / else the year takes
hy_branch(balance, current_ltv, year, amort_years) ==
    IF balance = 0 THEN "paid_off"
    ELSE IF LtvAbove(current_ltv) /\ year < amort_years
         THEN "amortize"
         ELSE "invest"

\* one iteration of the loop; trace records what the iteration did
hybrid_year(s, monthly_budget, rate, appreciation_rate, p_return, amort_years) ==
    LET property_value == s.property_value + PctOf(s.property_value, appreciation_rate)
        interest == PctOf(s.balance, rate)
        current_ltv == CurrentLtv(s.balance, property_value)
        monthly_interest == interest \div 12
        branch == hy_branch(s.balance, current_ltv, s.year, amort_years)
        monthly_min_amort == IF branch = "amortize"
                             THEN s.min_amort_per_year \div 12 ELSE 0
        monthly_investment ==
            CASE branch = "paid_off" -> monthly_budget
              [] branch = "amortize" ->
                    Max(0, monthly_budget - monthly_interest - monthly_min_amort)
              [] branch = "invest" -> Max(0, monthly_budget - monthly_interest)
        \* the paid-off branch already grows the investments once
        grown_in_branch ==
            IF branch = "paid_off"
            THEN s.investment_value + PctOf(s.investment_value, p_return)
                    + monthly_investment * 12
            ELSE s.investment_value
        subtracted == IF branch = "amortize"
                      THEN s.balance - s.min_amort_per_year ELSE s.balance
        payoff_year == IF branch = "amortize"
                       THEN payoff_mark(subtracted, s.payoff_year, s.year)
                       ELSE s.payoff_year
        balance == Max(0, subtracted)
        \* Grow investments
        investment_value == grown_in_branch + PctOf(grown_in_branch, p_return)
                                + monthly_investment * 12
        net == property_value - balance + investment_value
    IN  [s EXCEPT
           !.balance = balance,
           !.property_value = property_value,
           !.investment_value = investment_value,
           !.payoff_year = payoff_year,
           !.net_worth = Append(@, net),
           !.year = @ + 1,
           !.trace = Append(@, [branch |-> branch,
                                start_balance |-> s.balance,
                                balance |-> balance,
                                property_value |-> property_value,
                                interest |-> interest,
                                current_ltv |-> current_ltv,
                                amortization |-> s.balance - balance,
                                monthly_investment |-> monthly_investment,
                                invested |-> investment_value - s.investment_value
                                             - PctOf(s.investment_value, p_return),
                                investment_before |-> s.investment_value,
                                investment_value |-> investment_value,
                                payoff_year |-> payoff_year,
                                net_worth |-> net])]

HybridCall ==
    /\ pc = "hybrid"
    /\ hy.status = "idle"
    /\ LET s == hybrid_init(flat_price, equity)
       IN  /\ hy' = s
           /\ pc' = IF s = Raised THEN "error" ELSE pc
    /\ UNCHANGED <<inputs, min_payments, inv, re, payments, ltv>>

HybridYear ==
    /\ pc = "hybrid"
    /\ hy.status = "running"
    /\ hy.year < sim_years
    /\ hy' = hybrid_year(hy, monthly_cap, interest_rate, real_estate_growth,
                         portfolio_return, amortization_years)
    /\ UNCHANGED <<inputs, pc, min_payments, inv, re, payments, ltv>>

HybridReturn ==
    /\ pc = "hybrid"
    /\ hy.status = "running"
    /\ hy.year = sim_years
    /\ hy' = [hy EXCEPT !.status = "returned"]
    /\ pc' = "payments"
    /\ UNCHANGED <<inputs, min_payments, inv, re, payments, ltv>>

\* ------------------------------------------- calculate_monthly_payments
\* variant: a budget below the interest gives a negative amortization
insufficient_amort_unclamped(monthly_budget, monthly_interest) ==
    monthly_budget - monthly_interest

\* the amortization when the budget is not sufficient
insufficient_amort(monthly_budget, monthly_interest) ==
    IF monthly_budget > monthly_interest
    THEN monthly_budget - monthly_interest ELSE 0

calculate_monthly_payments(property_price, down_payment, monthly_budget, rate, amort_years, is_hybrid) ==
    IF property_price = 0 THEN Raised
    ELSE
    LET loan == property_price - down_payment
        min_amort_per_year ==
            IF (property_price - down_payment) * 1000 > target_ltv * property_price
            THEN (loan * 1000 - property_price * target_ltv) \div (min_period * 1000)
            ELSE 0
        monthly_interest == PctOf(loan, rate) \div 12
        monthly_min_amort == min_amort_per_year \div 12
        is_sufficient == monthly_budget >= monthly_interest + monthly_min_amort
        monthly_amort ==
            IF ~is_sufficient
            THEN insufficient_amort(monthly_budget, monthly_interest)
            ELSE IF is_hybrid THEN monthly_min_amort
                 ELSE Min(loan \div 12,
                          Max(monthly_min_amort, monthly_budget - monthly_interest))
        monthly_investment ==
            IF is_sufficient /\ is_hybrid
            THEN monthly_budget - monthly_interest - monthly_amort
            ELSE 0
    IN  [status |-> "returned",
         Interest |-> monthly_interest,
         Amortization |-> monthly_amort,
         Investment |-> monthly_investment,
         Is_Sufficient |-> is_sufficient]

\* real_estate = calculate_monthly_payments(...), then hybrid = ...(is_hybrid=True)
CallMonthlyPayments(is_hybrid) ==
    /\ pc = "payments"
    /\ payments[is_hybrid] = Idle
    /\ is_hybrid => payments[FALSE] # Idle
    /\ LET r == calculate_monthly_payments(flat_price, equity, monthly_cap,
                                           interest_rate, amortization_years, is_hybrid)
       IN  /\ payments' = [payments EXCEPT ![is_hybrid] = r]
           /\ pc' = IF r = Raised THEN "error" ELSE IF is_hybrid THEN "done" ELSE pc
    /\ UNCHANGED <<inputs, min_payments, inv, re, hy, ltv>>

\* ------------------------------------------------------------ the script
Init ==
    /\ flat_price \in PropertyPrices
    /\ equity \in DownPayments(flat_price)
    /\ monthly_cap \in Budgets
    /\ monthly_rent \in Rents
    /\ interest_rate \in InterestRates
    /\ real_estate_growth \in GrowthRates
    /\ portfolio_return \in PortfolioReturns
    /\ amortization_years \in AmortYears
    /\ pc = "min_payments"
    /\ min_payments = Idle
    /\ inv = Idle
    /\ re = [c \in BOOLEAN |-> Idle]
    /\ hy = Idle
    /\ payments = [h \in BOOLEAN |-> Idle]
    /\ ltv = [t \in Strategies |-> Idle]

Next ==
    \/ CallMinimumPayments
    \/ InvestCall
    \/ InvestMonth
    \/ InvestReturn
    \/ \E c \in BOOLEAN : RealEstateCall(c)
    \/ \E c \in BOOLEAN : RealEstateYear(c)
    \/ \E c \in BOOLEAN : RealEstateReturn(c)
    \/ HybridCall
    \/ HybridYear
    \/ HybridReturn
    \/ \E h \in BOOLEAN : CallMonthlyPayments(h)

Spec == Init /\ [][Next]_vars

\* --------------------------------------------- calculate_ltv_progression
\* what a run holds before it returns
NoResult == [status |-> "pending"]

\* the locals before the loop; monthly_growth is the loop's constant factor
\* (1 + real_estate_growth) ** (1/12) - 1, in basis points
ltv_init(property_price, down_payment, rate, strategy) ==
    LET loan == property_price - down_payment
        required_loan_reduction == loan - MulDiv(property_price, target_ltv, 1000)
    IN  [status |-> "running",
         strategy |-> strategy,
         property_price |-> property_price,
         loan |-> loan,
         balance |-> loan,
         property_value |-> property_price,
         years_to_target |-> None,
         target_reached |-> FALSE,
         required_loan_reduction |-> required_loan_reduction,
         min_monthly_amort |-> required_loan_reduction \div (min_period * 12),
         initial_monthly_interest |-> PctOf(loan, rate) \div 12,
         monthly_growth |-> MonthlyRate(real_estate_growth),
         month |-> 0,
         balance_progression |-> <<>>,
         ltv_progression |-> <<>>,
         amort_progression |-> <<>>,
         result |-> NoResult]

\* variant: the year written at every month at or below the target
ltv_mark_overwrite(target_reached, years_to_target, month) ==
    (month \div 12) + 1

\* if not target_reached: years_to_target = month // 12 + 1
ltv_mark(target_reached, years_to_target, month) ==
    IF ~target_reached THEN (month \div 12) + 1 ELSE years_to_target

\* monthly_amort of the month, by strategy and side of the target
ltv_monthly_amort(strategy, at_target, balance, min_monthly_amort, available_for_amort) ==
    IF at_target
    THEN IF strategy = "pure_max"
         THEN Min(balance, Max(min_monthly_amort, available_for_amort))
         ELSE 0
    ELSE IF strategy = "hybrid"
         THEN min_monthly_amort
         ELSE Min(balance, Max(min_monthly_amort, available_for_amort))

\* one iteration of the loop
ltv_month(s, monthly_budget, rate) ==
    LET property_value == s.property_value + BpOf(s.property_value, s.monthly_growth)
        monthly_interest == PctOf(s.balance, rate) \div 12
        current_ltv == CurrentLtv(s.balance, property_value)
        at_target == ~LtvAbove(current_ltv)
        monthly_amort == ltv_monthly_amort(s.strategy, at_target, s.balance,
                             s.min_monthly_amort, monthly_budget - monthly_interest)
        balance == Max(0, s.balance - monthly_amort)
    IN  [s EXCEPT
           !.property_value = property_value,
           !.years_to_target = IF at_target
                               THEN ltv_mark(s.target_reached, @, s.month) ELSE @,
           !.target_reached = @ \/ at_target,
           !.balance = balance,
           !.month = @ + 1,
           !.balance_progression = Append(@, balance),
           !.ltv_progression = Append(@, current_ltv),
           !.amort_progression = Append(@, monthly_amort)]

\* the tuple returned: years_to_target, balance_progression, ltv_progression
\* and the debug dictionary
ltv_result(s) ==
    [status |-> "returned",
     years_to_target |-> s.years_to_target,
     balance_progression |-> s.balance_progression,
     ltv_progression |-> s.ltv_progression,
     debug |-> [property_price |-> s.property_price,
                loan |-> s.loan,
                target_ltv |-> target_ltv,
                required_loan_reduction |-> s.required_loan_reduction,
                min_monthly_amort |-> s.min_monthly_amort,
                initial_monthly_interest |-> s.initial_monthly_interest,
                years_to_target |-> s.years_to_target,
                final_ltv |-> s.ltv_progression[Len(s.ltv_progression)],
                final_balance |-> s.balance_progression[Len(s.balance_progression)],
                strategy |-> s.strategy]]

\* range(360)
ltv_months == 360

LtvPc(t) == CASE t = "pure_max" -> "ltv_pure_max"
              [] t = "pure_invest" -> "ltv_pure_invest"
              [] t = "hybrid" -> "ltv_hybrid"

\* the three calls follow the payment breakdown, in this order
LtvCall(t) ==
    /\ ltv[t].status = "idle"
    /\ \/ t = "pure_max" /\ pc = "done"
       \/ t # "pure_max" /\ pc = LtvPc(t)
    /\ ltv' = [ltv EXCEPT ![t] = ltv_init(flat_price, equity, interest_rate, t)]
    /\ pc' = LtvPc(t)
    /\ UNCHANGED <<inputs, min_payments, inv, re, hy, payments>>

LtvMonth(t) ==
    /\ pc = LtvPc(t)
    /\ ltv[t].status = "running"
    /\ ltv[t].month < ltv_months
    /\ ltv' = [ltv EXCEPT ![t] = ltv_month(ltv[t], monthly_cap, interest_rate)]
    /\ UNCHANGED <<inputs, pc, min_payments, inv, re, hy, payments>>

LtvReturn(t) ==
    /\ pc = LtvPc(t)
    /\ ltv[t].status = "running"
    /\ ltv[t].month = ltv_months
    /\ ltv' = [ltv EXCEPT ![t] = [ltv[t] EXCEPT !.status = "returned",
                                                 !.result = ltv_result(ltv[t])]]
    /\ pc' = CASE t = "pure_max" -> "ltv_pure_invest"
               [] t = "pure_invest" -> "ltv_hybrid"
               [] t = "hybrid" -> "end"
    /\ UNCHANGED <<inputs, min_payments, inv, re, hy, payments>>

\* ---------------------------------------------- the script to its last call
\* appreciation rates of the tracker runs; the tracker does not read the
\* portfolio return, the rent or amortization_years
TrackerGrowthRates == {0 - 5, 0, 2}

FullInit ==
    /\ flat_price \in PropertyPrices
    /\ equity \in DownPayments(flat_price)
    /\ monthly_cap \in Budgets
    /\ monthly_rent \in Rents
    /\ interest_rate \in InterestRates
    /\ real_estate_growth \in TrackerGrowthRates
    /\ portfolio_return = 7
    /\ amortization_years = min_period
    /\ pc = "min_payments"
    /\ min_payments = Idle
    /\ inv = Idle
    /\ re = [c \in BOOLEAN |-> Idle]
    /\ hy = Idle
    /\ payments = [h \in BOOLEAN |-> Idle]
    /\ ltv = [t \in Strategies |-> Idle]

FullNext ==
    \/ Next
    \/ \E t \in Strategies : LtvCall(t)
    \/ \E t \in Strategies : LtvMonth(t)
    \/ \E t \in Strategies : LtvReturn(t)

FullSpec == FullInit /\ [][FullNext]_vars

\* ------------------------------------- simulate_hybrid_strategy on its own
\* down payments for which (loan - 0.667 * price) / 15 is not a whole number:
\* the quotient is rounded, as the float quotient is
RoundedDownPayments == {200000, 260000, 350000}

HybridInit ==
    /\ flat_price = 1200000
    /\ equity \in RoundedDownPayments \cup {241200, 600000}
    /\ monthly_cap \in Budgets
    /\ monthly_rent \in Rents
    /\ interest_rate \in InterestRates
    /\ real_estate_growth \in GrowthRates
    /\ portfolio_return \in PortfolioReturns
    /\ amortization_years \in AmortYears
    /\ pc = "hybrid"
    /\ min_payments = Idle
    /\ inv = Idle
    /\ re = [c \in BOOLEAN |-> Idle]
    /\ hy = Idle
    /\ payments = [h \in BOOLEAN |-> Idle]
    /\ ltv = [t \in Strategies |-> Idle]

HybridNext ==
    \/ HybridCall
    \/ HybridYear
    \/ HybridReturn

HybridSpec == HybridInit /\ [][HybridNext]_vars

\* ================================================================ claims
Started(s) == s.status \in {"running", "returned"}

\* the simulator runs that have begun: real estate in both modes, hybrid
YearRuns == {s \in {re[TRUE], re[FALSE], hy} : Started(s)}

Clamp(x, lower, upper) == IF x < lower THEN lower ELSE IF x > upper THEN upper ELSE x

\* x is the regulatory minimum annual amortization of (price, down)
IsRuleValue(x, price, down) ==
    IF (price - down) * 1000 <= 667 * price
    THEN x = 0
    ELSE x * 15 * 1000 = (price - down) * 1000 - 667 * price

\* C1: the minimum annual amortization computed by calculate_minimum_payments,
\* calculate_monthly_payments (visible as the hybrid amortization of a
\* sufficient budget), simulate_real_estate_strategy and
\* simulate_hybrid_strategy is 0 when loan/price <= 0.667 and exactly
\* (loan - 0.667 * price) / 15 otherwise, whatever amortization_years is.
C1_RegulatoryRule ==
    /\ min_payments.status = "returned"
          => IsRuleValue(12 * min_payments.monthly_min_amort, flat_price, equity)
    /\ \A s \in YearRuns : IsRuleValue(s.min_amort_per_year, flat_price, equity)
    /\ (payments[TRUE].status = "returned" /\ payments[TRUE].Is_Sufficient)
          => IsRuleValue(12 * payments[TRUE].Amortization, flat_price, equity)

C1_Witness ==
    /\ pc = "done"
    /\ amortization_years # 15
    /\ hy.min_amort_per_year > 0
    /\ re[TRUE].min_amort_per_year > 0
    /\ min_payments.monthly_min_amort > 0
    /\ payments[TRUE].Is_Sufficient

\* C2: calculate_monthly_payments returns Is_Sufficient = (budget >= interest
\* + minimum amortization) for both values of is_hybrid; insufficient:
\* Amortization = max(0, budget - interest), Investment = 0; sufficient and
\* hybrid: Amortization = the minimum, Investment = the remainder; sufficient
\* and not hybrid: Amortization = budget - interest clamped to
\* [minimum, loan/12], Investment = 0.
C2_PaymentSplit ==
    \A h \in BOOLEAN :
        payments[h].status = "returned" =>
            LET r == payments[h]
                mi == min_payments.monthly_interest
                mm == min_payments.monthly_min_amort
                b == monthly_cap
                loan == flat_price - equity
            IN  /\ r.Interest = mi
                /\ r.Is_Sufficient = (b >= mi + mm)
                /\ IF ~(b >= mi + mm)
                   THEN r.Amortization = Max(0, b - mi) /\ r.Investment = 0
                   ELSE IF h
                        THEN r.Amortization = mm /\ r.Investment = b - mi - mm
                        ELSE /\ r.Amortization = Clamp(b - mi, mm, loan \div 12)
                             /\ r.Investment = 0

C2_Witness ==
    /\ pc = "done"
    /\ payments[TRUE].Is_Sufficient
    /\ payments[TRUE].Investment > 0
    /\ payments[TRUE].Amortization > 0
    /\ payments[FALSE].Amortization > payments[TRUE].Amortization

\* a second case of C2: the budget is insufficient but above the interest
C2_WitnessInsufficient ==
    /\ pc = "done"
    /\ ~payments[FALSE].Is_Sufficient
    /\ payments[FALSE].Amortization > 0

\* C3: in both real-estate modes and in the hybrid simulator the balance at
\* the end of every year is at most the balance at its start (which is the
\* loan, or the balance the year before ended with) and is never negative.
C3_BalanceNonIncreasing ==
    \A s \in YearRuns :
        \A i \in 1..Len(s.trace) :
            /\ s.trace[i].start_balance =
                  (IF i = 1 THEN flat_price - equity ELSE s.trace[i - 1].balance)
            /\ s.trace[i].balance <= s.trace[i].start_balance
            /\ s.trace[i].balance >= 0
            /\ s.balance = s.trace[Len(s.trace)].balance

C3_Witness ==
    /\ pc = "done"
    /\ real_estate_growth >= 0
    /\ \E i \in 1..sim_years :
          /\ re[TRUE].trace[i].start_balance > 0
          /\ re[TRUE].trace[i].balance = 0
          /\ re[TRUE].trace[i].amortization < monthly_cap * 12
    /\ \E i \in 1..sim_years : hy.trace[i].balance < hy.trace[i].start_balance

\* the years in which the balance goes from > 0 to exactly 0
PayoffYears(s) ==
    {i \in 1..Len(s.trace) : s.trace[i].start_balance > 0 /\ s.trace[i].balance = 0}

\* C4: payoff_year, when not None, is the 1-indexed first year in which the
\* balance goes from > 0 to exactly 0; it is None while there is no such
\* year; once set it keeps its value.
C4_PayoffYear ==
    \A s \in YearRuns :
        /\ s.payoff_year # None =>
              /\ s.payoff_year \in PayoffYears(s)
              /\ \A i \in PayoffYears(s) : s.payoff_year <= i
        /\ PayoffYears(s) = {} => s.payoff_year = None
        /\ \A i \in 1..Len(s.trace) : \A j \in i..Len(s.trace) :
              s.trace[i].payoff_year # None
                  => s.trace[j].payoff_year = s.trace[i].payoff_year

C4_Witness ==
    /\ pc = "done"
    /\ real_estate_growth >= 0
    /\ re[TRUE].payoff_year # None
    /\ re[TRUE].payoff_year > 1
    /\ re[TRUE].payoff_year < sim_years
    /\ hy.payoff_year = None

\* the budget exceeds the interest plus the minimum amortization in every year
BudgetExceedsMinimum(s) ==
    \A i \in 1..Len(s.trace) :
        monthly_cap * 12 > s.trace[i].interest + s.min_amort_per_year

\* C5 as stated: with continue_amortization = True (a loan to pay off and a
\* property that does not lose value) the returned payoff_year is not None
\* whenever monthly_budget * 12 exceeds the year's interest plus the minimum
\* annual amortization in every simulated year.
C5_AsStated ==
    (/\ re[TRUE].status = "returned"
     /\ flat_price - equity > 0
     /\ real_estate_growth >= 0
     /\ BudgetExceedsMinimum(re[TRUE]))
        => re[TRUE].payoff_year # None

\* C5 amended: with continue_amortization = True the returned payoff_year is
\* not None whenever loan > 0, interest_rate >= 0 and amort_years times the
\* budget left after the interest on the whole loan covers the loan:
\* amort_years * (monthly_budget * 12 - loan * interest_rate) >= loan.
C5_PayoffWithinWindow ==
    LET loan == flat_price - equity
    IN  (/\ re[TRUE].status = "returned"
         /\ loan > 0
         /\ interest_rate >= 0
         /\ amortization_years * (monthly_cap * 12 - PctOf(loan, interest_rate)) >= loan)
            => re[TRUE].payoff_year # None

C5_Witness ==
    /\ re[TRUE].status = "returned"
    /\ real_estate_growth >= 0
    /\ flat_price - equity > 0
    /\ interest_rate > 0
    /\ amortization_years
          * (monthly_cap * 12 - PctOf(flat_price - equity, interest_rate))
          >= flat_price - equity
    /\ re[TRUE].payoff_year # None
    /\ re[TRUE].trace[1].current_ltv[1] * 1000 <= 667 * re[TRUE].trace[1].current_ltv[2]

\* C6 as stated: in every year of simulate_hybrid_strategy, the year that
\* starts with balance 0 included, investment_value is updated exactly once
\* to investment_value * (1 + portfolio_return) + 12 * monthly_investment,
\* and monthly_investment is the whole budget when the balance is already 0.
C6_AsStated ==
    Started(hy) =>
        \A i \in 1..Len(hy.trace) :
            LET e == hy.trace[i]
            IN  /\ e.investment_value =
                      e.investment_before + PctOf(e.investment_before, portfolio_return)
                          + 12 * e.monthly_investment
                /\ e.start_balance = 0 => e.monthly_investment = monthly_cap

\* C7 as stated: with a budget below the minimum required payment (and a
\* property that does not lose value), in every year of the real-estate and
\* hybrid simulators the amortization plus the new money invested is at most
\* max(0, monthly_budget * 12 - interest).
C7_AsStated ==
    (/\ min_payments.status = "returned"
     /\ monthly_cap < min_payments.total_min_payment
     /\ real_estate_growth >= 0) =>
        \A s \in YearRuns :
            \A i \in 1..Len(s.trace) :
                s.trace[i].amortization + s.trace[i].invested
                    <= Max(0, monthly_cap * 12 - s.trace[i].interest)

\* year i comes before the first year whose current_ltv is <= 0.667
BeforeTarget(i) ==
    \A j \in 1..i : LtvAbove(re[TRUE].trace[j].current_ltv)

\* C8: with the same inputs, balance, investment_value and net worth of the
\* run with continue_amortization = True and of the run with False are equal
\* in every year before the first year whose current_ltv is <= 0.667.
C8_ModesAgreeBeforeTarget ==
    (Started(re[TRUE]) /\ Started(re[FALSE])) =>
        \A i \in 1..Len(re[FALSE].trace) :
            BeforeTarget(i) =>
                /\ re[FALSE].trace[i].current_ltv = re[TRUE].trace[i].current_ltv
                /\ re[FALSE].trace[i].balance = re[TRUE].trace[i].balance
                /\ re[FALSE].trace[i].investment_value = re[TRUE].trace[i].investment_value
                /\ re[FALSE].trace[i].net_worth = re[TRUE].trace[i].net_worth
                /\ re[FALSE].net_worth[i] = re[TRUE].net_worth[i]

C8_Witness ==
    /\ re[FALSE].status = "returned"
    /\ real_estate_growth >= 0
    /\ BeforeTarget(3)
    /\ ~BeforeTarget(sim_years)
    /\ re[FALSE].net_worth[sim_years] # re[TRUE].net_worth[sim_years]
    /\ re[FALSE].balance # re[TRUE].balance

\* each emitted annual value is lower than the one before
Declining ==
    \A k \in 2..Len(inv.progression) :
        inv.progression[k] < inv.progression[k - 1]

\* C9 as stated: with monthly_budget < monthly_rent the emitted annual values
\* of simulate_investment_strategy are each lower than the one before.
C9_AsStated ==
    (Started(inv) /\ monthly_cap < monthly_rent) => Declining

\* C9 amended: every monthly step adds monthly_budget - monthly_rent without
\* clamping (with a zero return the k-th annual value is the capital plus
\* 12 * k contributions), and with monthly_budget < monthly_rent the annual
\* values are each lower than the one before when the monthly rate is >= 0
\* and the first month's growth of the initial capital is below the
\* withdrawal: initial_capital * monthly_rate < monthly_rent - monthly_budget.
C9_DeclineWhenGrowthBelowWithdrawal ==
    Started(inv) =>
        /\ portfolio_return = 0 =>
              \A k \in 1..Len(inv.progression) :
                  inv.progression[k] = equity + 12 * k * (monthly_cap - monthly_rent)
        /\ (/\ monthly_cap < monthly_rent
            /\ inv.monthly_rate >= 0
            /\ BpOf(equity, inv.monthly_rate) < monthly_rent - monthly_cap)
              => Declining

C9_Witness ==
    /\ inv.status = "returned"
    /\ monthly_cap < monthly_rent
    /\ inv.monthly_rate > 0
    /\ equity > 0
    /\ BpOf(equity, inv.monthly_rate) < monthly_rent - monthly_cap
    /\ inv.progression[years] < 0

\* C10 as stated: no core function fails on valid inputs, property_price = 0
\* included, and the LTV is 0 whenever the property value is 0.
C10_AsStated ==
    /\ pc # "error"
    /\ min_payments # Raised
    /\ \A s \in YearRuns :
          \A i \in 1..Len(s.trace) :
              s.trace[i].property_value = 0 => s.trace[i].current_ltv = <<0, 1>>

\* the tracker runs that have started
LtvRuns == {t \in Strategies : Started(ltv[t])}

\* the months (1-based positions of ltv_progression) at or below the target
AtTargetMonths(s) ==
    {m \in 1..Len(s.ltv_progression) : ~LtvAbove(s.ltv_progression[m])}

FirstAtTarget(s) ==
    CHOOSE m \in AtTargetMonths(s) : \A k \in AtTargetMonths(s) : m <= k

\* C11: for every strategy tag, years_to_target of calculate_ltv_progression
\* is (m div 12) + 1 for the first 0-indexed month m whose current LTV is at
\* or below 0.667, is None exactly when no month so far is, keeps its value
\* in every later month, and is what the function returns.
C11_YearsToTarget ==
    \A t \in LtvRuns :
        LET s == ltv[t]
        IN  /\ s.years_to_target =
                 IF AtTargetMonths(s) = {} THEN None
                 ELSE ((FirstAtTarget(s) - 1) \div 12) + 1
            /\ s.status = "returned" =>
                 /\ s.result.years_to_target = s.years_to_target
                 /\ s.result.debug.years_to_target = s.years_to_target

\* one script run returns a year later than the first, with months of later
\* years at the target too, from one strategy and None from another
C11_Witness ==
    /\ pc = "end"
    /\ \E t \in Strategies :
         LET s == ltv[t]
         IN  /\ s.result.years_to_target > 1
             /\ \E m \in AtTargetMonths(s) :
                  ((m - 1) \div 12) + 1 > s.result.years_to_target
    /\ \E t \in Strategies :
         /\ ltv[t].result.years_to_target = None
         /\ AtTargetMonths(ltv[t]) = {}

\* C12: on a valid input each of the four net-worth series has one point per
\* completed year and exactly 30 points when it is returned, the point of the
\* pure-investment series for a year being the value after the monthly step
\* 12 * year - 1 (steps 11, 23, ..., 359); each per-month series of
\* calculate_ltv_progression has one point per completed month and exactly
\* 360 points when it is returned.
C12_SeriesLengths ==
    /\ Started(inv) =>
         /\ Len(inv.progression) = inv.month \div 12
         /\ (inv.month > 0 /\ inv.month % 12 = 0) =>
              inv.progression[Len(inv.progression)] = inv.value
         /\ inv.status = "returned" => Len(inv.progression) = 30
    /\ \A s \in YearRuns :
         /\ Len(s.net_worth) = s.year
         /\ s.status = "returned" => Len(s.net_worth) = 30
    /\ \A t \in LtvRuns :
         LET s == ltv[t]
         IN  /\ Len(s.balance_progression) = s.month
             /\ Len(s.ltv_progression) = s.month
             /\ Len(s.amort_progression) = s.month
             /\ s.status = "returned" =>
                  /\ Len(s.result.balance_progression) = 360
                  /\ Len(s.result.ltv_progression) = 360
                  /\ Len(s.amort_progression) = 360

\* the script has returned all four net-worth series and the three trackers,
\* and the investment value changed within the last year
C12_Witness ==
    /\ pc = "end"
    /\ inv.status = "returned"
    /\ Len(inv.progression) = 30
    /\ inv.progression[29] # inv.progression[30]
    /\ \A c \in BOOLEAN : re[c].status = "returned"
    /\ hy.status = "returned"
    /\ \A t \in Strategies : ltv[t].status = "returned"

\* the balance before month m (1-based) of a tracker run
BalanceBefore(s, m) == IF m = 1 THEN s.loan ELSE s.balance_progression[m - 1]

\* C13 (as stated): the result of calculate_ltv_progression contains the
\* per-month balance, LTV and amortization sequences, entry m of the
\* amortization sequence being the amount subtracted from the balance in
\* month m, and the debug record with its ten fields.
C13_AsStated ==
    \A t \in LtvRuns :
        ltv[t].status = "returned" =>
            LET r == ltv[t].result
            IN  /\ {"balance_progression", "ltv_progression",
                    "amort_progression", "debug"} \subseteq DOMAIN r
                /\ \A m \in 1..Len(r.amort_progression) :
                     r.amort_progression[m] =
                        BalanceBefore(ltv[t], m) - r.balance_progression[m]
                /\ DOMAIN r.debug =
                     {"property_price", "loan", "target_ltv",
                      "required_loan_reduction", "min_monthly_amort",
                      "initial_monthly_interest", "years_to_target",
                      "final_ltv", "final_balance", "strategy"}

\* C15: in simulate_real_estate_strategy with continue_amortization = false
\* and an appreciation rate >= 0, in the first year whose current LTV is at
\* or below 0.667 and in every later year no amortization is subtracted and
\* the balance is left unchanged: the year never takes the amortizing arm.
C15_InvestOnlyAfterTarget ==
    (Started(re[FALSE]) /\ real_estate_growth >= 0) =>
        LET tr == re[FALSE].trace
        IN  \A i \in 1..Len(tr) :
                ~LtvAbove(tr[i].current_ltv) =>
                    \A j \in i..Len(tr) :
                        /\ tr[j].branch # "amortize"
                        /\ tr[j].amortization = 0
                        /\ tr[j].balance = tr[j].start_balance

\* the run amortized for some years, met the target in a later year with a
\* balance left, and invested the budget from then to year 30
C15_Witness ==
    /\ re[FALSE].status = "returned"
    /\ real_estate_growth >= 0
    /\ LET tr == re[FALSE].trace
       IN  \E i \in 2..29 :
               /\ tr[i - 1].branch = "amortize"
               /\ tr[i - 1].amortization > 0
               /\ ~LtvAbove(tr[i].current_ltv)
               /\ tr[i].balance > 0
               /\ tr[30].branch = "invest"
               /\ tr[30].monthly_investment > 0

\* C16 (as stated): in calculate_ltv_progression, for every strategy tag and
\* every valid input, an initial LTV at or below 0.667 and a budget below the
\* monthly interest included, the monthly amortization is never negative, the
\* balance never rises from one month to the next and is never negative, and
\* the reported min_monthly_amort is never negative.
C16_AsStated ==
    \A t \in LtvRuns :
        LET s == ltv[t]
        IN  /\ s.min_monthly_amort >= 0
            /\ \A m \in 1..Len(s.amort_progression) :
                 /\ s.amort_progression[m] >= 0
                 /\ s.balance_progression[m] <= BalanceBefore(s, m)
                 /\ s.balance_progression[m] >= 0

\* the years (1-based) in which a run subtracted the minimum amortization
AmortizedYears(s) == {i \in 1..Len(s.trace) : s.trace[i].branch = "amortize"}

\* C17 (as stated): in simulate_hybrid_strategy with loan > 0 and an
\* appreciation rate >= 0, for any amortization_years, the minimum
\* amortization is subtracted in at most 15 years, the balance is strictly
\* positive after every year, and payoff_year stays None.
C17_AsStated ==
    (Started(hy) /\ flat_price - equity > 0 /\ real_estate_growth >= 0) =>
        /\ Cardinality(AmortizedYears(hy)) <= 15
        /\ \A i \in 1..Len(hy.trace) : hy.trace[i].balance > 0
        /\ hy.payoff_year = None

============================================================================
